---- MODULE Spec2Model ----
(***************************************************************************)
(* Model of the img2img building blocks (img2img/nn/blocks.py), the enums  *)
(* that select their layers (cfg/enums.py) and the pix2pix training        *)
(* utilities (img2img/models/pix2pix/utils.py).                           *)
(*                                                                         *)
(* Tensors are modelled by their shapes <<N, C, H, W>>; layers by records  *)
(* holding their class name and constructor arguments; an exception by a   *)
(* record whose field "raised" names the exception class.                  *)
(***************************************************************************)
EXTENDS Integers, Sequences, FiniteSets, TLC

VARIABLES
    blk,        \* blocks.py: the module built by the last constructor call
    out,        \* blocks.py: the last forward pass (input shape, result)
    sel,        \* blocks.py: the last call of a layer selector
    genMode,    \* utils.py: gen.training ("train" / "eval")
    images,     \* utils.py: image files present in `folder`
    writer,     \* utils.py: entries logged to the SummaryWriter
    vcall,      \* utils.py: the last call of a visualization helper
    model,      \* utils.py: model.state_dict()
    optimizer,  \* utils.py: optimizer.state_dict() (state, param_groups)
    disk,       \* utils.py: checkpoint files, by filename
    ccall,      \* utils.py: the last training step or checkpoint call (`before`:
                \* the model state it started from)
    lastSave    \* utils.py: the arguments of the most recent save_checkpoint

blockVars == <<blk, out, sel>>
visVars == <<genMode, images, writer, vcall>>
ckptVars == <<model, optimizer, disk, ccall, lastSave>>
vars == <<blk, out, sel, genMode, images, writer, vcall, model, optimizer, disk, ccall,
          lastSave>>

----------------------------------------------------------------------------
(* Bounds of the model.                                                    *)

MaxMult == 2        \* channel counts and layer_multiplier range over 1..MaxMult
MaxChan == 4        \* max_layer_multiplier ranges over -1..MaxChan
MaxSide == 3        \* H and W of an input range over 1..MaxSide
MaxBlocks == 2      \* num_blocks ranges over 0..MaxBlocks
MaxEpoch == 2       \* epoch ranges over 0..MaxEpoch
MaxBatches == 2     \* a val_loader yields 0..MaxBatches batches
MaxSteps == 2       \* training steps taken in a run
MaxGroups == 2      \* an optimizer has 1..MaxGroups parameter groups

----------------------------------------------------------------------------
(* cfg/enums.py                                                            *)

Member(e, n) == [enum |-> e, name |-> n]

PaddingType == {Member("PaddingType", n) : n \in {"REFLECT", "REPLICATE", "ZERO"}}

NormalizationType ==
    {Member("NormalizationType", n) : n \in {"BATCH", "INSTANCE", "LAYER", "NONE"}}

ActivationType ==
    {Member("ActivationType", n) : n \in {"RELU", "LEAKY_RELU", "TANH", "SIGMOID", "NONE"}}

\* The .value of a PaddingType member.
PaddingValue(m) ==
    CASE m.name = "REFLECT" -> "reflect"
      [] m.name = "REPLICATE" -> "replicate"
      [] m.name = "ZERO" -> "zero"

\* Values that are no member of any enum: the raw strings and None a caller
\* may pass where a member is expected.  Enum members compare by identity, so
\* none of them equals a member.
RawValues == {Member("raw", n) : n \in {"batch", "relu", "None"}}

----------------------------------------------------------------------------
(* img2img/nn/blocks.py: ConvBlock                                         *)

Layer(k, a) == [raised |-> "none", kind |-> k, arg |-> a]
Raise(e) == [raised |-> e, kind |-> "none", arg |-> 0]

\* The selector without its branch for NormalizationType.NONE.
NormalizationSelectorNoNone(norm_dim, normalization_type) ==
    IF normalization_type = Member("NormalizationType", "BATCH")
    THEN Layer("BatchNorm2d", norm_dim)
    ELSE IF normalization_type = Member("NormalizationType", "INSTANCE")
    THEN Layer("InstanceNorm2d", norm_dim)
    ELSE IF normalization_type = Member("NormalizationType", "LAYER")
    THEN Layer("LayerNorm", norm_dim)
    ELSE Raise("NotImplementedError")

NormalizationSelector(norm_dim, normalization_type) ==
    IF normalization_type = Member("NormalizationType", "BATCH")
    THEN Layer("BatchNorm2d", norm_dim)
    ELSE IF normalization_type = Member("NormalizationType", "INSTANCE")
    THEN Layer("InstanceNorm2d", norm_dim)
    ELSE IF normalization_type = Member("NormalizationType", "LAYER")
    THEN Layer("LayerNorm", norm_dim)
    ELSE IF normalization_type = Member("NormalizationType", "NONE")
    THEN Layer("Identity", 0)
    ELSE Raise("NotImplementedError")

ActivationLayerSelector(activation_type) ==
    IF activation_type = Member("ActivationType", "RELU")
    THEN Layer("ReLU", 0)
    ELSE IF activation_type = Member("ActivationType", "LEAKY_RELU")
    THEN Layer("LeakyReLU", 0)
    ELSE IF activation_type = Member("ActivationType", "TANH")
    THEN Layer("Tanh", 0)
    ELSE IF activation_type = Member("ActivationType", "SIGMOID")
    THEN Layer("Sigmoid", 0)
    ELSE IF activation_type = Member("ActivationType", "NONE")
    THEN Layer("Identity", 0)
    ELSE Raise("NotImplementedError")

\* The padding modes nn.Conv2d accepts; its constructor raises ValueError on
\* any other padding_mode.
ValidPaddingModes == {"zeros", "reflect", "replicate", "circular"}

Conv2d(in_channels, out_channels, kernel_size, stride, padding, padding_mode) ==
    IF padding_mode \notin ValidPaddingModes
    THEN [raised |-> "ValueError", in_channels |-> in_channels,
          out_channels |-> out_channels, kernel_size |-> kernel_size,
          stride |-> stride, padding |-> padding, padding_mode |-> padding_mode]
    ELSE [raised |-> "none", in_channels |-> in_channels,
          out_channels |-> out_channels, kernel_size |-> kernel_size,
          stride |-> stride, padding |-> padding, padding_mode |-> padding_mode]

\* ConvBlock.__init__: the selectors run first, then nn.Conv2d is built; the
\* first exception ends the construction.
ConvBlock(in_channels, out_channels, kernel_size, stride, padding, normalization_type, padding_type, activation_type) ==
    LET norm_dim == out_channels
        normalization_layer == NormalizationSelector(norm_dim, normalization_type)
        activation_layer == ActivationLayerSelector(activation_type)
        conv == Conv2d(in_channels, out_channels, kernel_size, stride, padding,
                       PaddingValue(padding_type))
        raised == IF normalization_layer.raised # "none" THEN normalization_layer.raised
                  ELSE IF activation_layer.raised # "none" THEN activation_layer.raised
                  ELSE conv.raised
    IN  [raised |-> raised, conv |-> conv,
         normalization_layer |-> normalization_layer,
         activation_layer |-> activation_layer]

----------------------------------------------------------------------------
(* Forward passes, on shapes <<N, C, H, W>>.                               *)

Tensor(s) == [raised |-> "none", shape |-> s]
Fail(e) == [raised |-> e, shape |-> <<>>]

ConvOut(size, conv) == ((size + 2 * conv.padding - conv.kernel_size) \div conv.stride) + 1

\* nn.Conv2d.forward: the input must have in_channels channels and the padded
\* input must hold the kernel.
Conv2dForward(conv, x) ==
    IF x.raised # "none" THEN x
    ELSE IF x.shape[2] # conv.in_channels THEN Fail("RuntimeError")
    ELSE IF \/ x.shape[3] + 2 * conv.padding < conv.kernel_size
            \/ x.shape[4] + 2 * conv.padding < conv.kernel_size
    THEN Fail("RuntimeError")
    ELSE Tensor(<<x.shape[1], conv.out_channels,
                  ConvOut(x.shape[3], conv), ConvOut(x.shape[4], conv)>>)

\* The normalization layers: BatchNorm2d(n) needs n channels, LayerNorm(n)
\* normalizes over the last dimension, which must be of size n;
\* InstanceNorm2d (affine=False) and Identity take any shape.
NormForward(layer, x) ==
    IF x.raised # "none" THEN x
    ELSE IF layer.kind = "BatchNorm2d" /\ x.shape[2] # layer.arg THEN Fail("RuntimeError")
    ELSE IF layer.kind = "LayerNorm" /\ x.shape[4] # layer.arg THEN Fail("RuntimeError")
    ELSE x

\* ConvBlock.forward: self.model is Sequential(conv, normalization, activation);
\* the activations are elementwise.
ConvBlockForward(block, x) ==
    NormForward(block.normalization_layer, Conv2dForward(block.conv, x))

----------------------------------------------------------------------------
(* img2img/nn/blocks.py: ConvBlocks, ResBlock, ResBlocks                   *)

Module(layers) ==
    [raised |-> IF \E i \in 1..Len(layers) : layers[i].raised # "none"
                THEN (CHOOSE e \in {layers[i].raised : i \in 1..Len(layers)} : e # "none")
                ELSE "none",
     layers |-> SelectSeq(layers, LAMBDA b : b.raised = "none")]

\* The while loop of ConvBlocks.__init__: the blocks appended to self.layers,
\* up to and including a block whose construction raises.
RECURSIVE ConvBlocksLayers(_, _, _, _, _, _, _, _)
ConvBlocksLayers(layer_multiplier, max_layer_multiplier, kernel_size, stride, padding, padding_type, normalization_type, activation_type) ==
    IF layer_multiplier < max_layer_multiplier
    THEN LET b == ConvBlock(layer_multiplier, layer_multiplier * 2, kernel_size, stride,
                            padding, normalization_type, padding_type, activation_type)
         IN  IF b.raised # "none" THEN <<b>>
             ELSE <<b>> \o ConvBlocksLayers(layer_multiplier * 2, max_layer_multiplier,
                                            kernel_size, stride, padding, padding_type,
                                            normalization_type, activation_type)
    ELSE <<>>

ConvBlocks(layer_multiplier, max_layer_multiplier, kernel_size, stride, padding, padding_type, normalization_type, activation_type) ==
    Module(ConvBlocksLayers(layer_multiplier, max_layer_multiplier, kernel_size, stride,
                            padding, padding_type, normalization_type, activation_type))

\* ResBlock.__init__: two ConvBlocks of `channels` channels, the second one
\* with ActivationType.NONE; the second is not built when the first raises.
ResBlock(channels, kernel_size, stride, padding, normalization_type, padding_type, activation_type) ==
    LET first == ConvBlock(channels, channels, kernel_size, stride, padding,
                           normalization_type, padding_type, activation_type)
        second == ConvBlock(channels, channels, kernel_size, stride, padding,
                            normalization_type, padding_type,
                            Member("ActivationType", "NONE"))
    IN  Module(IF first.raised # "none" THEN <<first>> ELSE <<first, second>>)

\* The defaults of ResBlock.__init__, which ResBlocks relies on.
ResKernelSize == 3
ResStride == 1
ResPadding == 1

RECURSIVE ResBlocksLayers(_, _, _, _, _)
ResBlocksLayers(channels, num_blocks, normalization_type, padding_type, activation_type) ==
    IF num_blocks <= 0 THEN <<>>
    ELSE LET b == ResBlock(channels, ResKernelSize, ResStride, ResPadding,
                           normalization_type, padding_type, activation_type)
         IN  IF b.raised # "none" THEN <<b>>
             ELSE <<b>> \o ResBlocksLayers(channels, num_blocks - 1, normalization_type,
                                           padding_type, activation_type)

ResBlocks(channels, num_blocks, normalization_type, padding_type, activation_type) ==
    Module(ResBlocksLayers(channels, num_blocks, normalization_type, padding_type,
                           activation_type))

\* nn.Sequential of ConvBlocks: each layer is applied to the previous output.
RECURSIVE SequentialForward(_, _)
SequentialForward(layers, x) ==
    IF layers = <<>> THEN x
    ELSE SequentialForward(Tail(layers), ConvBlockForward(Head(layers), x))

ConvBlocksForward(module, x) == SequentialForward(module.layers, x)

Max(a, b) == IF a >= b THEN a ELSE b

\* Tensor addition: equal shapes, or shapes that broadcast (each dimension
\* equal, or 1 on one side).
Add(a, b) ==
    IF a.raised # "none" THEN a
    ELSE IF b.raised # "none" THEN b
    ELSE IF \A i \in 1..4 : a.shape[i] = b.shape[i] \/ a.shape[i] = 1 \/ b.shape[i] = 1
    THEN Tensor([i \in 1..4 |-> Max(a.shape[i], b.shape[i])])
    ELSE Fail("RuntimeError")

\* ResBlock.forward: self.model(x) + x
ResBlockForward(module, x) == Add(SequentialForward(module.layers, x), x)

RECURSIVE ResBlocksSequential(_, _)
ResBlocksSequential(layers, x) ==
    IF layers = <<>> THEN x
    ELSE ResBlocksSequential(Tail(layers), ResBlockForward(Head(layers), x))

ResBlocksForward(module, x) == ResBlocksSequential(module.layers, x)

Forward(b, x) ==
    CASE b.cls = "ConvBlock" -> ConvBlockForward(b.obj, x)
      [] b.cls = "ConvBlocks" -> ConvBlocksForward(b.obj, x)
      [] b.cls = "ResBlock" -> ResBlockForward(b.obj, x)
      [] b.cls = "ResBlocks" -> ResBlocksForward(b.obj, x)

----------------------------------------------------------------------------
(* The calls of blocks.py: each action is one call, with every argument    *)
(* drawn from its type.  A run follows one object at a time: a module is   *)
(* built, applied to one input and dropped; a selector is called and its   *)
(* result dropped.                                                         *)

NoBlock == [cls |-> "none"]
NoOut == [raised |-> "none", shape |-> <<>>, input |-> <<>>]
NoSel == [fn |-> "none"]

Channels == 1..MaxMult
\* <<kernel_size, stride, padding>>, the defaults of ResBlock among them
Geometry == {<<1, 1, 0>>, <<3, 1, 1>>, <<2, 2, 0>>, <<3, 2, 1>>}
Shapes == {<<2, c, h, w>> : c \in Channels, h \in 1..MaxSide, w \in 1..MaxSide}
SelectorArgs == NormalizationType \cup ActivationType \cup PaddingType \cup RawValues

NewConvBlock ==
    /\ blk = NoBlock /\ sel = NoSel
    /\ \E cin \in Channels, cout \in Channels, g \in Geometry,
       n \in NormalizationType, p \in PaddingType, a \in ActivationType :
        /\ blk' = [cls |-> "ConvBlock",
                   args |-> [in_channels |-> cin, out_channels |-> cout,
                             kernel_size |-> g[1], stride |-> g[2], padding |-> g[3],
                             normalization_type |-> n, padding_type |-> p,
                             activation_type |-> a],
                   obj |-> ConvBlock(cin, cout, g[1], g[2], g[3], n, p, a)]
        /\ out' = NoOut
        /\ sel' = NoSel
        /\ UNCHANGED <<visVars, ckptVars>>

NewConvBlocks ==
    /\ blk = NoBlock /\ sel = NoSel
    /\ \E lm \in 1..MaxMult, mx \in (-1)..MaxChan, g \in Geometry,
       n \in NormalizationType, p \in PaddingType, a \in ActivationType :
        /\ blk' = [cls |-> "ConvBlocks",
                   args |-> [layer_multiplier |-> lm, max_layer_multiplier |-> mx,
                             kernel_size |-> g[1], stride |-> g[2], padding |-> g[3],
                             normalization_type |-> n, padding_type |-> p,
                             activation_type |-> a],
                   obj |-> ConvBlocks(lm, mx, g[1], g[2], g[3], p, n, a)]
        /\ out' = NoOut
        /\ sel' = NoSel
        /\ UNCHANGED <<visVars, ckptVars>>

NewResBlock ==
    /\ blk = NoBlock /\ sel = NoSel
    /\ \E c \in Channels, g \in Geometry,
       n \in NormalizationType, p \in PaddingType, a \in ActivationType :
        /\ blk' = [cls |-> "ResBlock",
                   args |-> [channels |-> c,
                             kernel_size |-> g[1], stride |-> g[2], padding |-> g[3],
                             normalization_type |-> n, padding_type |-> p,
                             activation_type |-> a],
                   obj |-> ResBlock(c, g[1], g[2], g[3], n, p, a)]
        /\ out' = NoOut
        /\ sel' = NoSel
        /\ UNCHANGED <<visVars, ckptVars>>

NewResBlocks ==
    /\ blk = NoBlock /\ sel = NoSel
    /\ \E c \in Channels, nb \in 0..MaxBlocks,
       n \in NormalizationType, p \in PaddingType, a \in ActivationType :
        /\ blk' = [cls |-> "ResBlocks",
                   args |-> [channels |-> c, num_blocks |-> nb,
                             normalization_type |-> n, padding_type |-> p,
                             activation_type |-> a],
                   obj |-> ResBlocks(c, nb, n, p, a)]
        /\ out' = NoOut
        /\ sel' = NoSel
        /\ UNCHANGED <<visVars, ckptVars>>

\* module(x), for a module whose construction returned
CallForward ==
    /\ blk.cls # "none"
    /\ blk.obj.raised = "none"
    /\ out = NoOut
    /\ \E s \in Shapes :
        LET y == Forward(blk, Tensor(s))
        IN  out' = [raised |-> y.raised, shape |-> y.shape, input |-> s]
    /\ UNCHANGED <<blk, sel, visVars, ckptVars>>

CallNormalizationSelector ==
    /\ blk = NoBlock /\ sel = NoSel
    /\ \E d \in Channels, t \in SelectorArgs :
        /\ sel' = [fn |-> "_normalization_selector", arg |-> t, norm_dim |-> d,
                   result |-> NormalizationSelector(d, t)]
        /\ blk' = NoBlock
        /\ out' = NoOut
        /\ UNCHANGED <<visVars, ckptVars>>

CallActivationLayerSelector ==
    /\ blk = NoBlock /\ sel = NoSel
    /\ \E t \in SelectorArgs :
        /\ sel' = [fn |-> "_activation_layer_selector", arg |-> t, norm_dim |-> 0,
                   result |-> ActivationLayerSelector(t)]
        /\ blk' = NoBlock
        /\ out' = NoOut
        /\ UNCHANGED <<visVars, ckptVars>>

\* The module, or the selector's result, goes out of scope.
Drop ==
    /\ blk # NoBlock \/ sel # NoSel
    /\ blk' = NoBlock
    /\ out' = NoOut
    /\ sel' = NoSel
    /\ UNCHANGED <<visVars, ckptVars>>

----------------------------------------------------------------------------
(* img2img/models/pix2pix/utils.py: the visualization helpers              *)

\* nn.Module.eval() and nn.Module.train(), on the generator's mode
\* gen.eval() left out: the generator keeps its mode.
GenEvalSkipped(mode) == mode

GenEval(mode) == "eval"
GenTrain(mode) == "train"

File(prefix, n) == <<prefix, n>>

\* The ground truth saved at every epoch.
IsAnyEpoch(epoch) == epoch >= 0

\* if epoch == 0:
IsFirstEpoch(epoch) == epoch = 0

NoVisCall ==
    [fn |-> "none", epoch |-> 0, batches |-> 0, before |-> "none", raised |-> "none",
     genCalls |-> <<>>, written |-> <<>>, logged |-> {}]

\* save_some_examples(gen, val_loader, epoch, folder, writer), on a loader of
\* `batches` batches: next(iter(val_loader)) raises StopIteration on an empty
\* loader, after gen.eval().  A record of the call: the generator's mode at
\* each gen(x) (writer.add_graph runs the generator too), the files written,
\* the writer's entries, and the mode the generator is left in.
SaveSomeExamplesCall(mode, batches, epoch) ==
    LET m == GenEval(mode)
    IN  IF batches = 0
        THEN [raised |-> "StopIteration", genCalls |-> <<>>, written |-> <<>>,
              logged |-> {}, mode |-> m]
        ELSE [raised |-> "none",
              genCalls |-> IF IsFirstEpoch(epoch) THEN <<m, m>> ELSE <<m>>,
              written |-> IF IsFirstEpoch(epoch)
                          THEN <<File("label", epoch), File("sample", epoch)>>
                          ELSE <<File("sample", epoch)>>,
              logged |-> IF IsFirstEpoch(epoch)
                         THEN {<<"graph", 0>>, <<"test_image", epoch>>}
                         ELSE {<<"test_image", epoch>>},
              mode |-> GenTrain(m)]

\* evaluate_val_set(gen, val_loader, folder): one gen(x) and one val_{idx}.png
\* per batch, idx counting from 0.
EvaluateValSetCall(mode, batches) ==
    LET m == GenEval(mode)
    IN  [raised |-> "none",
         genCalls |-> [idx \in 1..batches |-> m],
         written |-> [i \in 1..batches |-> File("val", i - 1)],
         logged |-> {},
         mode |-> GenTrain(m)]

Range(f) == {f[i] : i \in DOMAIN f}

SaveSomeExamples ==
    \E epoch \in 0..MaxEpoch, batches \in 0..MaxBatches :
        LET c == SaveSomeExamplesCall(genMode, batches, epoch)
        IN  /\ genMode' = c.mode
            /\ images' = images \cup Range(c.written)
            /\ writer' = writer \cup c.logged
            /\ vcall' = [fn |-> "save_some_examples", epoch |-> epoch,
                         batches |-> batches, before |-> genMode,
                         raised |-> c.raised,
                         genCalls |-> c.genCalls, written |-> c.written,
                         logged |-> c.logged]
            /\ UNCHANGED <<blockVars, ckptVars>>

EvaluateValSet ==
    \E batches \in 0..MaxBatches :
        LET c == EvaluateValSetCall(genMode, batches)
        IN  /\ genMode' = c.mode
            /\ images' = images \cup Range(c.written)
            /\ writer' = writer \cup c.logged
            /\ vcall' = [fn |-> "evaluate_val_set", epoch |-> 0,
                         batches |-> batches, before |-> genMode,
                         raised |-> c.raised,
                         genCalls |-> c.genCalls, written |-> c.written,
                         logged |-> c.logged]
            /\ UNCHANGED <<blockVars, ckptVars>>

\* The caller puts the generator in either mode between the helpers' calls.
CallerSetsMode ==
    /\ \E m \in {GenEval(genMode), GenTrain(genMode)} : genMode' = m
    /\ vcall' = NoVisCall
    /\ UNCHANGED <<images, writer, blockVars, ckptVars>>

----------------------------------------------------------------------------
(* img2img/models/pix2pix/utils.py: the checkpoint helpers                 *)
(*                                                                         *)
(* model.state_dict() is a number (the version of the weights); the        *)
(* optimizer's state_dict holds its per-parameter state (a number) and its *)
(* parameter groups, each with a learning rate and a weight decay.         *)

Filenames == {"gen.pth.tar", "disc.pth.tar"}
LearningRates == {1, 2, 3}
NoFile == [absent |-> TRUE]
NoSave == [file |-> "none"]
NoCkptCall == [fn |-> "none", file |-> "none", lr |-> 0, before |-> 0, raised |-> "none"]

Group(lr, wd) == [lr |-> lr, weight_decay |-> wd]

\* save_checkpoint: the dict handed to torch.save
Checkpoint(state_dict, optimizer_state_dict) ==
    [state_dict |-> state_dict, optimizer |-> optimizer_state_dict]

\* Checkpoints found on disk at start, written by earlier runs: of an
\* optimizer of one group and of an optimizer of two.
Foreign ==
    {Checkpoint(7, [state |-> 5, param_groups |-> <<Group(3, 0)>>]),
     Checkpoint(8, [state |-> 6, param_groups |-> <<Group(3, 0), Group(2, 1)>>])}

\* The optimizer's state left as it is.
OptimizerStateDictNotLoaded(opt, sd) == [raised |-> "none", optimizer |-> opt]

\* optimizer.load_state_dict(sd): ValueError when the numbers of parameter
\* groups differ; otherwise the optimizer takes the saved state and groups.
OptimizerLoadStateDict(opt, sd) ==
    IF Len(sd.param_groups) # Len(opt.param_groups)
    THEN [raised |-> "ValueError", optimizer |-> opt]
    ELSE [raised |-> "none", optimizer |-> sd]

\* The loop over the parameter groups left out: the checkpoint's learning
\* rates stay.
LearningRateOfCheckpoint(opt, lr) == opt

\* for param_group in optimizer.param_groups: param_group["lr"] = lr
SetLearningRate(opt, lr) ==
    [opt EXCEPT !.param_groups =
        [i \in 1..Len(opt.param_groups) |-> [opt.param_groups[i] EXCEPT !.lr = lr]]]

\* load_checkpoint(checkpoint_file, model, optimizer, lr), on the file's
\* content: the model is loaded first, then the optimizer, then the learning
\* rate is set.
LoadCheckpointCall(file, mdl, opt, lr) ==
    IF file = NoFile
    THEN [raised |-> "FileNotFoundError", model |-> mdl, optimizer |-> opt]
    ELSE LET loaded == OptimizerLoadStateDict(opt, file["optimizer"])
         IN  IF loaded.raised # "none"
             THEN [raised |-> loaded.raised, model |-> file["state_dict"],
                   optimizer |-> opt]
             ELSE [raised |-> "none", model |-> file["state_dict"],
                   optimizer |-> SetLearningRate(loaded.optimizer, lr)]

\* The training loop around the helpers: a step changes the weights and the
\* optimizer's state.
TrainStep ==
    /\ model < MaxSteps
    /\ model' = model + 1
    /\ optimizer' = [optimizer EXCEPT !.state = optimizer.state + 1]
    /\ ccall' = [fn |-> "train", file |-> "none", lr |-> 0, before |-> model,
                 raised |-> "none"]
    /\ UNCHANGED <<disk, lastSave, blockVars, visVars>>

SaveCheckpoint ==
    \E filename \in Filenames :
        /\ disk' = [disk EXCEPT ![filename] = Checkpoint(model, optimizer)]
        /\ lastSave' = [file |-> filename, model |-> model, optimizer |-> optimizer]
        /\ ccall' = [fn |-> "save_checkpoint", file |-> filename, lr |-> 0,
                     before |-> model, raised |-> "none"]
        /\ UNCHANGED <<model, optimizer, blockVars, visVars>>

LoadCheckpoint ==
    \E checkpoint_file \in Filenames, lr \in LearningRates :
        LET c == LoadCheckpointCall(disk[checkpoint_file], model, optimizer, lr)
        IN  /\ model' = c.model
            /\ optimizer' = c.optimizer
            /\ ccall' = [fn |-> "load_checkpoint", file |-> checkpoint_file, lr |-> lr,
                         before |-> model, raised |-> c.raised]
            /\ UNCHANGED <<disk, lastSave, blockVars, visVars>>

----------------------------------------------------------------------------
(* Specifications: one per source module's operations.                     *)

BlocksIdle == blk = NoBlock /\ out = NoOut /\ sel = NoSel
VisIdle == genMode = "train" /\ images = {} /\ writer = {} /\ vcall = NoVisCall
CkptIdle ==
    /\ model = 0
    /\ optimizer = [state |-> 0, param_groups |-> <<Group(1, 0)>>]
    /\ disk = [f \in Filenames |-> NoFile]
    /\ ccall = NoCkptCall
    /\ lastSave = NoSave

InitBlocks == BlocksIdle /\ VisIdle /\ CkptIdle

NextBlocks ==
    \/ NewConvBlock
    \/ NewConvBlocks
    \/ NewResBlock
    \/ NewResBlocks
    \/ CallForward
    \/ CallNormalizationSelector
    \/ CallActivationLayerSelector
    \/ Drop

SpecBlocks == InitBlocks /\ [][NextBlocks]_vars

\* The generator starts in either mode, the folder empty.
InitVis ==
    /\ genMode \in {"train", "eval"}
    /\ images = {}
    /\ writer = {}
    /\ vcall = NoVisCall
    /\ BlocksIdle
    /\ CkptIdle

NextVis ==
    \/ SaveSomeExamples
    \/ EvaluateValSet
    \/ CallerSetsMode

SpecVis == InitVis /\ [][NextVis]_vars

\* A fresh model and an optimizer of 1..MaxGroups groups with any learning
\* rates; the first file may be there already.
InitCkpt ==
    /\ model = 0
    /\ \E n \in 1..MaxGroups :
        \E lrs \in [1..n -> LearningRates] :
            optimizer = [state |-> 0,
                         param_groups |-> [i \in 1..n |-> Group(lrs[i], i - 1)]]
    /\ \E f \in Foreign \cup {NoFile} :
        disk = [n \in Filenames |-> IF n = "gen.pth.tar" THEN f ELSE NoFile]
    /\ ccall = NoCkptCall
    /\ lastSave = NoSave
    /\ BlocksIdle
    /\ VisIdle

NextCkpt ==
    \/ TrainStep
    \/ SaveCheckpoint
    \/ LoadCheckpoint

SpecCkpt == InitCkpt /\ [][NextCkpt]_vars

----------------------------------------------------------------------------
(* Properties of the checkpoint helpers (SpecCkpt).                        *)

\* C1: after load_checkpoint(checkpoint_file, model, optimizer, lr) returns,
\* every parameter group of the optimizer has learning rate lr, whatever
\* the checkpoint stored and whatever the optimizer had before.
LoadSetsLearningRate ==
    (ccall.fn = "load_checkpoint" /\ ccall.raised = "none")
        => \A i \in 1..Len(optimizer.param_groups) :
               optimizer.param_groups[i].lr = ccall.lr

\* A load that returned, into an optimizer of two groups, of a checkpoint
\* whose groups hold two learning rates, both other than lr.
LoadSetsLearningRateWitness ==
    /\ ccall.fn = "load_checkpoint"
    /\ ccall.raised = "none"
    /\ Len(optimizer.param_groups) = 2
    /\ disk[ccall.file]["optimizer"].param_groups[1].lr # ccall.lr
    /\ disk[ccall.file]["optimizer"].param_groups[2].lr # ccall.lr
    /\ disk[ccall.file]["optimizer"].param_groups[1].lr
         # disk[ccall.file]["optimizer"].param_groups[2].lr

SameButLearningRate(g, h) ==
    /\ Len(g) = Len(h)
    /\ \A i \in 1..Len(g) : [g[i] EXCEPT !.lr = 0] = [h[i] EXCEPT !.lr = 0]

\* C2: a load_checkpoint of the file written by the most recent
\* save_checkpoint returns and leaves the model state as it was at that save
\* and the optimizer state as it was at that save but for the learning rates
\* of its groups; the file of a save holds exactly the entries "state_dict"
\* and "optimizer".
CheckpointRoundTrip ==
    /\ lastSave # NoSave =>
           /\ DOMAIN disk[lastSave.file] = {"state_dict", "optimizer"}
           /\ disk[lastSave.file]["state_dict"] = lastSave.model
           /\ disk[lastSave.file]["optimizer"] = lastSave.optimizer
    /\ (ccall.fn = "load_checkpoint" /\ lastSave # NoSave /\ ccall.file = lastSave.file)
           => /\ ccall.raised = "none"
              /\ model = lastSave.model
              /\ optimizer.state = lastSave.optimizer.state
              /\ SameButLearningRate(optimizer.param_groups,
                                     lastSave.optimizer.param_groups)

\* A load of a checkpoint saved after one training step, following a second
\* training step, with a learning rate other than the saved one.
CheckpointRoundTripWitness ==
    /\ ccall.fn = "load_checkpoint"
    /\ lastSave # NoSave
    /\ ccall.file = lastSave.file
    /\ lastSave.model = 1
    /\ lastSave.optimizer.state = 1
    /\ ccall.before = 2
    /\ model = 1
    /\ optimizer.param_groups[1].lr # lastSave.optimizer.param_groups[1].lr

----------------------------------------------------------------------------
(* Properties of the visualization helpers (SpecVis).                      *)

SaveSomeExamplesOutcome ==
    /\ File("sample", vcall.epoch) \in Range(vcall.written)
    /\ File("sample", vcall.epoch) \in images
    /\ File("label", vcall.epoch) \in Range(vcall.written) <=> vcall.epoch = 0
    /\ <<"graph", 0>> \in vcall.logged <=> vcall.epoch = 0

\* C3, as stated: every call of save_some_examples writes sample_{epoch}.png,
\* and writes label_{epoch}.png and adds the graph to the writer if and only
\* if epoch is 0.
SaveSomeExamplesEveryCall ==
    vcall.fn = "save_some_examples" => SaveSomeExamplesOutcome

\* C3, amended: every call of save_some_examples that returns (its val_loader
\* yields a batch) writes sample_{epoch}.png, and writes label_{epoch}.png
\* and adds the graph if and only if epoch is 0; a call on an empty loader
\* raises StopIteration and writes nothing; so no label of another epoch is
\* ever in the folder.
SaveSomeExamplesEveryReturn ==
    /\ (vcall.fn = "save_some_examples" /\ vcall.batches > 0)
           => (vcall.raised = "none" /\ SaveSomeExamplesOutcome)
    /\ (vcall.fn = "save_some_examples" /\ vcall.batches = 0)
           => (vcall.raised = "StopIteration" /\ vcall.written = <<>>)
    /\ \A f \in images : f[1] = "label" => f[2] = 0
    /\ <<"graph", 0>> \in writer <=> File("label", 0) \in images

\* Calls at epoch 0 and at a later epoch have both returned.
SaveSomeExamplesWitness ==
    /\ vcall.fn = "save_some_examples"
    /\ vcall.raised = "none"
    /\ vcall.epoch = 1
    /\ images = {File("label", 0), File("sample", 0), File("sample", 1)}

\* C10: in save_some_examples and evaluate_val_set the generator is in
\* evaluation mode at every gen(x), and in training mode on every normal
\* return, whatever its mode before; evaluate_val_set returns having written
\* val_0.png .. val_{n-1}.png in this order, one per batch.
GeneratorMode ==
    vcall.fn # "none" =>
        /\ \A i \in 1..Len(vcall.genCalls) : vcall.genCalls[i] = "eval"
        /\ vcall.raised = "none" => genMode = "train"
        /\ vcall.fn = "evaluate_val_set" =>
               /\ vcall.raised = "none"
               /\ Len(vcall.genCalls) = vcall.batches
               /\ Len(vcall.written) = vcall.batches
               /\ \A i \in 1..vcall.batches : vcall.written[i] = File("val", i - 1)
               /\ Range(vcall.written) \subseteq images

\* evaluate_val_set on two batches, called with the generator in training
\* mode (left so by an earlier helper or by the caller).
GeneratorModeWitness ==
    /\ vcall.fn = "evaluate_val_set"
    /\ vcall.before = "train"
    /\ vcall.batches = 2
    /\ Len(vcall.genCalls) = 2
    /\ genMode = "train"

----------------------------------------------------------------------------
(* Properties of the blocks (SpecBlocks).                                  *)

Layers == blk.obj.layers

\* C4: a ConvBlocks of at least one block starts at in_channels =
\* layer_multiplier, doubles the channels in every block, chains the blocks
\* and ends at out_channels = max_layer_multiplier.
ConvBlocksReachMax ==
    (blk.cls = "ConvBlocks" /\ blk.obj.raised = "none" /\ Len(Layers) >= 1) =>
        /\ Layers[1].conv.in_channels = blk.args.layer_multiplier
        /\ \A i \in 1..Len(Layers) :
               Layers[i].conv.out_channels = 2 * Layers[i].conv.in_channels
        /\ \A i \in 2..Len(Layers) :
               Layers[i].conv.in_channels = Layers[i - 1].conv.out_channels
        /\ Layers[Len(Layers)].conv.out_channels = blk.args.max_layer_multiplier

ExpectedNormalization ==
    ("BATCH" :> "BatchNorm2d") @@ ("INSTANCE" :> "InstanceNorm2d")
        @@ ("LAYER" :> "LayerNorm") @@ ("NONE" :> "Identity")

ExpectedActivation ==
    ("RELU" :> "ReLU") @@ ("LEAKY_RELU" :> "LeakyReLU") @@ ("TANH" :> "Tanh")
        @@ ("SIGMOID" :> "Sigmoid") @@ ("NONE" :> "Identity")

\* C5: _normalization_selector and _activation_layer_selector return the
\* layer of each member of their enum and raise NotImplementedError if and
\* only if the argument is no member of it.
SelectorsTotalOnEnums ==
    /\ sel.fn = "_normalization_selector" =>
           /\ sel.result.raised = "NotImplementedError" <=> sel.arg \notin NormalizationType
           /\ sel.arg \in NormalizationType =>
                  /\ sel.result.raised = "none"
                  /\ sel.result.kind = ExpectedNormalization[sel.arg.name]
    /\ sel.fn = "_activation_layer_selector" =>
           /\ sel.result.raised = "NotImplementedError" <=> sel.arg \notin ActivationType
           /\ sel.arg \in ActivationType =>
                  /\ sel.result.raised = "none"
                  /\ sel.result.kind = ExpectedActivation[sel.arg.name]

\* NormalizationType.NONE, whose value is None, selects Identity.
SelectorsWitness ==
    /\ sel.fn = "_normalization_selector"
    /\ sel.arg = Member("NormalizationType", "NONE")
    /\ sel.result.kind = "Identity"

\* C6: for every member of PaddingType the padding_mode handed to nn.Conv2d
\* is one it accepts, so the construction of any block raises nothing.
PaddingTypeAccepted ==
    blk.cls # "none" =>
        /\ PaddingValue(blk.args.padding_type) \in ValidPaddingModes
        /\ blk.obj.raised = "none"

\* C7: the forward pass of a ConvBlock on (N, in_channels, H, W) whose
\* convolution output is not empty returns (N, out_channels, H', W'), for
\* every member of NormalizationType.
ConvBlockForwardShape ==
    (/\ blk.cls = "ConvBlock"
     /\ out.input # <<>>
     /\ out.input[2] = blk.args.in_channels
     /\ out.input[3] + 2 * blk.args.padding >= blk.args.kernel_size
     /\ out.input[4] + 2 * blk.args.padding >= blk.args.kernel_size)
        => /\ out.raised = "none"
           /\ out.shape =
                <<out.input[1], blk.args.out_channels,
                  ((out.input[3] + 2 * blk.args.padding - blk.args.kernel_size)
                       \div blk.args.stride) + 1,
                  ((out.input[4] + 2 * blk.args.padding - blk.args.kernel_size)
                       \div blk.args.stride) + 1>>

IsDefaultResBlock ==
    /\ blk.cls = "ResBlock"
    /\ blk.args.kernel_size = 3
    /\ blk.args.stride = 1
    /\ blk.args.padding = 1

\* C8: a ResBlock of the default kernel_size, stride and padding, and a
\* ResBlocks of any num_blocks, is built, of ResBlocks of two ConvBlocks each,
\* the second without activation, and returns the shape of its input.
ResidualKeepsShape ==
    /\ IsDefaultResBlock =>
           /\ blk.obj.raised = "none"
           /\ Len(Layers) = 2
           /\ Layers[2].activation_layer.kind = "Identity"
    /\ blk.cls = "ResBlocks" =>
           /\ blk.obj.raised = "none"
           /\ Len(Layers) = blk.args.num_blocks
           /\ \A i \in 1..Len(Layers) :
                  /\ Len(Layers[i].layers) = 2
                  /\ Layers[i].layers[2].activation_layer.kind = "Identity"
    /\ ((IsDefaultResBlock \/ blk.cls = "ResBlocks")
            /\ out.input # <<>> /\ out.input[2] = blk.args.channels)
           => (out.raised = "none" /\ out.shape = out.input)

RECURSIVE Pow2(_)
Pow2(k) == IF k <= 0 THEN 1 ELSE 2 * Pow2(k - 1)

\* The least k >= 0 with layer_multiplier * 2^k >= max_layer_multiplier
LeastDoublings(layer_multiplier, max_layer_multiplier) ==
    CHOOSE k \in 0..(MaxChan + 1) :
        /\ layer_multiplier * Pow2(k) >= max_layer_multiplier
        /\ \A j \in 0..(k - 1) : layer_multiplier * Pow2(j) < max_layer_multiplier

\* C9: the construction of ConvBlocks ends having built exactly k ConvBlocks,
\* k the least with layer_multiplier * 2^k >= max_layer_multiplier.
ConvBlocksCount ==
    blk.cls = "ConvBlocks" =>
        /\ blk.obj.raised = "none"
        /\ Len(Layers) = LeastDoublings(blk.args.layer_multiplier,
                                        blk.args.max_layer_multiplier)

====
